---- MODULE Spec2Model ----
(***************************************************************************)
(* Engine communication core of Chess_Analyzer_GUI.py: the caller (Tk UI   *)
(* thread) and the single engine worker thread, the two hand-off queues    *)
(* between them, the worker's engine reference and the child engine        *)
(* processes.  The worker's handler is split at its await points, where    *)
(* the caller's thread and the engine process run; every other handler is  *)
(* one atomic action.  Library calls (python-chess, queue, threading)      *)
(* appear as their outcomes: return, raise, or no answer (no step).        *)
(*                                                                         *)
(* History variables (started, finished, produced, consumed) and the       *)
(* fields id / req / snap / sent record what happened; the program has no  *)
(* such fields and no action's guard reads them.                           *)
(***************************************************************************)
EXTENDS FiniteSets, Integers, Sequences, TLC

\* ------------------------------------------------------------------------
\* Bounds
\* ------------------------------------------------------------------------
\* total number of requests the caller puts on the request queue
MaxReq == 3
\* board positions are 0..MaxPos
MaxPos == 1

\* centipawn scores range over -MaxCp..MaxCp and the neighbours of the mate
\* sentinel, mate distances over -MaxMate..MaxMate
MaxCp == 51

MaxMate == 2

\* ------------------------------------------------------------------------
\* Values
\* ------------------------------------------------------------------------
None == 0

Positions == 0..MaxPos

\* an unallocated (or collected) board object
Free == -1

\* chess.Board.turn of a position: 0 = White, 1 = Black
Turn(b) == b % 2

\* the value of time_limit passed by _start_analysis
TimeLimit == 2

\* what the entry field can hold, as the file system sees it
Paths ==
  { p \in [empty : BOOLEAN, isfile : BOOLEAN, xok : BOOLEAN, which : BOOLEAN] :
      /\ p.empty => (~p.isfile /\ ~p.which)
      /\ p.xok => p.isfile }

\* the path string _resolve_engine_path returns (os.path.abspath(user_value)
\* or the result of shutil.which); the model keeps only that there is one
ResolvedPath == "path"

\* _resolve_engine_path; "" stands for None
ResolveEnginePath(p) ==
  IF p.empty THEN ""
  ELSE IF p.isfile THEN (IF p.xok THEN ResolvedPath ELSE "")
  ELSE IF p.which THEN ResolvedPath
  ELSE ""

\* truth value of self.engine in `if self.engine` / `if not self.engine`
Truthy_Always(e) == TRUE

Truthy(e) == e # None

\* requests: the tuple (command, data); id and snap are history fields
ConnectRequest(path, n) ==
  [cmd |-> "connect", path |-> path, board |-> None, time_limit |-> 0,
   snap |-> Free, sent |-> Free, id |-> n]

AnalyzeRequest(ref, pos, n) ==
  [cmd |-> "analyze", path |-> "", board |-> ref, time_limit |-> TimeLimit,
   snap |-> pos, sent |-> Free, id |-> n]

QuitRequest(n) ==
  [cmd |-> "quit", path |-> "", board |-> None, time_limit |-> 0,
   snap |-> Free, sent |-> Free, id |-> n]

NoRequest ==
  [cmd |-> "", path |-> "", board |-> None, time_limit |-> 0,
   snap |-> Free, sent |-> Free, id |-> 0]

\* results: the tuple (msg_type, data); req and pos are history fields
Result(type, msg, move, score, turn, pos, n) ==
  [type |-> type, msg |-> msg, move |-> move, score |-> score, turn |-> turn,
   pos |-> pos, req |-> n]

\* chess.engine.Score values: Cp(n), Mate(n) and MateGiven
Cp(n) == [kind |-> "cp", n |-> n]

Mate(n) == [kind |-> "mate", n |-> n]

MateGiven == [kind |-> "mate_given", n |-> 0]

\* info.get("score") when the engine reported no score
NoRelative == [kind |-> "none", n |-> 0]

\* chess.engine.PovScore(relative, turn)
PovScore(relative, turn) == [relative |-> relative, turn |-> turn]

\* score_obj is None
NoScore == PovScore(NoRelative, Free)

\* Score.__neg__
Neg(s) ==
  CASE s.kind = "cp" -> Cp(-s.n)
    [] s.kind = "mate" -> IF s.n = 0 THEN MateGiven ELSE Mate(-s.n)
    [] OTHER -> Mate(0)

\* PovScore.pov(color)
Pov(ps, color) == IF ps.turn = color THEN ps.relative ELSE Neg(ps.relative)

\* Score.is_mate()
IsMate_Never(s) == FALSE

IsMate(s) == s.kind # "cp"

\* Score.mate(): the set holding the number of moves, empty for None
MateMoves(s) ==
  CASE s.kind = "cp" -> {}
    [] s.kind = "mate" -> {s.n}
    [] OTHER -> {0}

\* Score.score(mate_score=m): the set holding the number
ScoreOf(s, m) ==
  CASE s.kind = "cp" -> {s.n}
    [] s.kind = "mate" -> IF s.n > 0 THEN {m - s.n} ELSE {-m - s.n}
    [] OTHER -> {m}

\* the mate_score handed to Score.score
MateScore == 10000

ConnectSuccess(n) == Result("connect_success", "", "", NoScore, Free, Free, n)

ConnectFail(cause, n) == Result("connect_fail", cause, "", NoScore, Free, Free, n)

NotConnectedMsg == "Engine is not connected."

AnalysisFailedMsg == "Analysis failed"

ErrorResult(msg, n) == Result("error", msg, "", NoScore, Free, Free, n)

\* what engine.analyse can report: no principal variation and no score, or a
\* principal variation with a score
Infos == { [pv |-> <<>>, score |-> NoRelative],
           [pv |-> <<"e2e4">>, score |-> Mate(1)] }

\* engine.analyse(board, limit): the score is wrapped with the side to move
\* of the board the engine was given
EngineInfo(info, board) ==
  [pv |-> info.pv,
   score |-> IF info.score = NoRelative THEN NoScore
             ELSE PovScore(info.score, Turn(board))]

AnalysisResult(info, turn, pos, n) ==
  Result("analysis_result", "",
         IF info.pv # <<>> THEN Head(info.pv) ELSE "N/A",
         info.score, turn, pos, n)

\* the causes str(e) of a failed connect
LaunchCause == "launch failed"

HandshakeCause == "handshake failed"

PingCause == "ping failed"

\* queue.Queue() is created without a maxsize: maxsize is 0, which
\* queue.Queue takes as "no capacity"
Maxsize == 0

\* queue.Queue.full(): 0 < maxsize <= qsize(); put waits while the queue is
\* full
Full(q) == 0 < Maxsize /\ Maxsize <= Len(q)

\* queue.Queue: put appends, get takes the oldest item
RequestQueuePut(q, r) == Append(q, r)

RequestQueueGet_Newest(q) ==
  [item |-> q[Len(q)], rest |-> SubSeq(q, 1, Len(q) - 1)]

RequestQueueGet(q) == [item |-> Head(q), rest |-> Tail(q)]

ResultQueuePut(q, r) == Append(q, r)

ResultQueueGetNowait_Newest(q) ==
  [item |-> q[Len(q)], rest |-> SubSeq(q, 1, Len(q) - 1)]

ResultQueueGetNowait(q) == [item |-> Head(q), rest |-> Tail(q)]

\* chess.Board.copy() into the fresh object n: the copy shares nothing with
\* the board it was taken from
BoardCopy_Alias(h, n) == [ref |-> 0, heap |-> h]

BoardCopy(h, n) == [ref |-> n, heap |-> [h EXCEPT ![n] = h[0]]]

\* a request's board becomes garbage once the handler is done with it
Release(h, ref) == IF ref = 0 THEN h ELSE [h EXCEPT ![ref] = Free]

\* the handler's `except Exception` clauses of the connect branch: the engine
\* reference after a failed connect
EngineAfterConnectFail_Kept(e) == e

EngineAfterConnectFail(e) == None

\* where the worker is after an exception inside a handler: the exception is
\* caught and the loop goes on
PcAfterExcept_Escapes == "done"

PcAfterExcept == "idle"

\* Thread.join(timeout=2.0) returns when the thread has ended or the timeout
\* has elapsed
JoinReturns(workerPc) == TRUE

\* the text and colour of self.evaluation_label; a number in the text is kept
\* as sign, whole part and two-digit fraction
Label(text, neg, whole, frac, fg) ==
  [text |-> text, neg |-> neg, whole |-> whole, frac |-> frac, fg |-> fg]

\* the label after construction: no text, coloured by _apply_theme
EmptyLabel == Label("", FALSE, 0, 0, "text")

\* evaluation_label.config(text="..."): the colour stays
Dots(l) == Label("...", FALSE, 0, 0, l.fg)

Abs(n) == IF n < 0 THEN -n ELSE n

\* f"{cp_score / 100:.2f}"
FormatCp(cp, fg) == Label("%.2f", cp < 0, Abs(cp) \div 100, Abs(cp) % 100, fg)

\* result.get("turn", self.board.turn): the worker always sets the key
AnalyzedTurn_LiveBoard(result, boardTurn) == boardTurn

AnalyzedTurn(result, boardTurn) == result.turn

\* the evaluation label _update_gui_with_analysis sets for result
UpdateGuiWithAnalysis(result, boardTurn) ==
  IF result.score = NoScore
  THEN Label("(Not available)", FALSE, 0, 0, "muted")
  ELSE LET pov_score == Pov(result.score, AnalyzedTurn(result, boardTurn)) IN
       IF IsMate(pov_score)
       THEN LET mate_moves == MateMoves(pov_score) IN
            IF mate_moves = {}
            THEN Label("Mate", FALSE, 0, 0, "text")
            ELSE LET m == CHOOSE x \in mate_moves : TRUE IN
                 IF m > 0
                 THEN Label("Mate in", FALSE, m, 0, "success")
                 ELSE Label("Mated in", FALSE, -m, 0, "error")
       ELSE LET cp_score == ScoreOf(pov_score, MateScore) IN
            IF cp_score = {}
            THEN Label("0.00", FALSE, 0, 0, "text")
            ELSE LET cp == CHOOSE x \in cp_score : TRUE IN
                 FormatCp(cp, IF cp > 50 THEN "success"
                              ELSE IF cp < -50 THEN "error" ELSE "text")

\* where the handler goes at the end of the quit branch: break leaves the loop
PcAfterQuit_Continues == "idle"

PcAfterQuit == "done"

\* the handler awaits each engine call, so it is back at request_queue.get
\* only when the exchange of the previous request has returned or raised
WorkerReady_NotAwaited(workerPc) == workerPc \in {"idle", "a_wait"}

WorkerReady(workerPc) == workerPc = "idle"

\* ------------------------------------------------------------------------
\* State
\* ------------------------------------------------------------------------
VARIABLES
  request_queue,   \* self.request_queue
  result_queue,    \* self.result_queue
  engine,          \* self.engine: None or the process the protocol talks to
  alive,           \* the engine processes that are running
  launched,        \* number of engine processes spawned so far
  pc,              \* where the worker thread (self.engine_thread) is
  cur,             \* the request the worker is handling
  heap,            \* board objects: heap[0] is self.board, heap[n] the copy made for request n
  analyze_button,  \* state of self.analyze_button: TRUE = NORMAL
  ui,              \* the caller: "open", "joining" (inside join), "closed"
  nreq,            \* number of requests put so far
  started,         \* history: the requests the worker has taken, in order
  finished,        \* history: ids of the requests whose handling is over
  produced,        \* history: the results the worker has put, in order
  consumed,        \* history: the results the caller has taken, in order
  evaluation_label, \* self.evaluation_label
  sf_status_label, \* text of self.sf_status_label
  poll_armed,      \* the next _check_result_queue tick is scheduled
  messagebox,      \* the error box the step just taken has shown ("" for none);
                   \* the box a poll tick waits in stays until it is dismissed
                   \* or the window is destroyed
  destroyed,       \* master.destroy() has destroyed the window
  tcl_error        \* an _on_closing call has ended with TclError

vars == <<request_queue, result_queue, engine, alive, launched, pc, cur, heap,
          analyze_button, ui, nreq, started, finished, produced, consumed,
          evaluation_label, sf_status_label, poll_armed, messagebox,
          destroyed, tcl_error>>

workerVars == <<engine, alive, launched, pc, cur, started, finished, produced>>

\* the titles of the error boxes (messagebox.showerror)
NoBox == ""

InvalidExecutableBox == "Invalid Stockfish executable."

ConnectionErrorBox == "Connection Error"

ErrorBox == "Error"

InvalidFenBox == "Invalid FEN"

\* the Tk thread is inside a _check_result_queue tick, waiting in the modal
\* error box of the connect_fail or error branch: the box has the grab, so
\* no widget of the main window gets a click
InBox == ~poll_armed /\ messagebox \in {ConnectionErrorBox, ErrorBox}

\* the box on screen after a step of the worker thread: a box the Tk thread
\* is waiting in stays
BoxLeft == IF InBox THEN messagebox ELSE NoBox

\* what the FEN entry can hold: the FEN of a position, or a string set_fen
\* rejects
InvalidFen == -2

Fens == Positions \cup {InvalidFen}

\* the texts of self.sf_status_label
NotConnectedText == "Status: Not connected"

ConnectedText == "Status: Connected!"

ConnectionFailedText == "Status: Connection failed"

Init ==
  /\ request_queue = <<>>
  /\ result_queue = <<>>
  /\ engine = None
  /\ alive = {}
  /\ launched = 0
  /\ pc = "idle"
  /\ cur = NoRequest
  /\ heap = [n \in 0..MaxReq |-> IF n = 0 THEN 0 ELSE Free]
  /\ analyze_button = FALSE
  /\ ui = "open"
  /\ nreq = 0
  /\ started = <<>>
  /\ finished = {}
  /\ produced = <<>>
  /\ consumed = <<>>
  /\ evaluation_label = EmptyLabel
  /\ sf_status_label = NotConnectedText
  /\ poll_armed = TRUE
  /\ messagebox = NoBox
  /\ destroyed = FALSE
  /\ tcl_error = FALSE

\* ------------------------------------------------------------------------
\* The caller (Tk thread)
\* ------------------------------------------------------------------------
\* _connect_to_stockfish with the entry field holding p
ConnectToStockfish(p) ==
  /\ ui = "open"
  /\ ~InBox
  /\ LET resolved == ResolveEnginePath(p) IN
       IF resolved = ""
       THEN /\ messagebox' = InvalidExecutableBox
            /\ UNCHANGED <<request_queue, nreq>>
       ELSE /\ nreq < MaxReq
            /\ ~Full(request_queue)
            /\ request_queue' =
                 RequestQueuePut(request_queue, ConnectRequest(resolved, nreq + 1))
            /\ nreq' = nreq + 1
            /\ messagebox' = NoBox
  /\ UNCHANGED <<result_queue, heap, analyze_button, ui, consumed, evaluation_label,
                 sf_status_label, poll_armed>>
  /\ UNCHANGED workerVars
  /\ UNCHANGED <<destroyed, tcl_error>>

\* _start_analysis; the button invokes it only while it is enabled
StartAnalysis ==
  /\ ui = "open"
  /\ ~InBox
  /\ analyze_button
  /\ nreq < MaxReq
  /\ ~Full(request_queue)
  /\ LET c == BoardCopy(heap, nreq + 1) IN
       /\ heap' = c.heap
       /\ request_queue' =
            RequestQueuePut(request_queue, AnalyzeRequest(c.ref, heap[0], nreq + 1))
  /\ analyze_button' = FALSE
  /\ evaluation_label' = Dots(evaluation_label)
  /\ nreq' = nreq + 1
  /\ messagebox' = NoBox
  /\ UNCHANGED <<result_queue, ui, consumed, sf_status_label, poll_armed>>
  /\ UNCHANGED workerVars
  /\ UNCHANGED <<destroyed, tcl_error>>

\* _on_square_click completing a legal move: board.push changes the position
\* and passes the turn
OnSquareClick ==
  /\ ui = "open"
  /\ ~InBox
  /\ \E b \in Positions :
       /\ Turn(b) # Turn(heap[0])
       /\ heap' = [heap EXCEPT ![0] = b]
  /\ messagebox' = NoBox
  /\ UNCHANGED <<request_queue, result_queue, analyze_button, ui, nreq, consumed,
                 evaluation_label, sf_status_label, poll_armed>>
  /\ UNCHANGED workerVars
  /\ UNCHANGED <<destroyed, tcl_error>>

\* _reset_board_from_fen with the entry holding f: set_fen of a valid FEN;
\* an invalid one raises ValueError, the board stays and an error box is shown
ResetBoardFromFen(f) ==
  /\ ui = "open"
  /\ ~InBox
  /\ IF f = InvalidFen
     THEN /\ messagebox' = InvalidFenBox
          /\ UNCHANGED heap
     ELSE /\ heap' = [heap EXCEPT ![0] = f]
          /\ messagebox' = NoBox
  /\ UNCHANGED <<request_queue, result_queue, analyze_button, ui, nreq, consumed,
                 evaluation_label, sf_status_label, poll_armed>>
  /\ UNCHANGED workerVars
  /\ UNCHANGED <<destroyed, tcl_error>>

\* the status text _apply_theme derives from what it reads in self.engine
ThemeStatus(e, label) == IF e = None THEN NotConnectedText ELSE ConnectedText

\* _toggle_theme: _apply_theme rewrites the status label from self.engine and
\* gives the evaluation label the text colour; the theme itself is left out
ToggleTheme ==
  /\ ui = "open"
  /\ ~InBox
  /\ sf_status_label' = ThemeStatus(engine, sf_status_label)
  /\ evaluation_label' = [evaluation_label EXCEPT !.fg = "text"]
  /\ messagebox' = NoBox
  /\ UNCHANGED <<request_queue, result_queue, heap, analyze_button, ui, nreq,
                 consumed, poll_armed>>
  /\ UNCHANGED workerVars
  /\ UNCHANGED <<destroyed, tcl_error>>

\* self.master.after(100, self._check_result_queue) follows the try block,
\* whatever message was taken ("" when the queue was empty)
Rearm_NotAfterError(msg_type) == msg_type # "error"

Rearm(msg_type) == TRUE

\* one tick of _check_result_queue, up to its return or, in the connect_fail
\* and error branches, up to the modal error box
CheckResultQueue ==
  /\ ui = "open"
  /\ poll_armed
  /\ IF result_queue = <<>>
     THEN /\ messagebox' = NoBox
          /\ poll_armed' = Rearm("")
          /\ UNCHANGED <<result_queue, analyze_button, consumed, evaluation_label,
                         sf_status_label>>
     ELSE LET g == ResultQueueGetNowait(result_queue) IN
          /\ result_queue' = g.rest
          /\ consumed' = Append(consumed, g.item)
          /\ evaluation_label' =
               IF g.item.type = "analysis_result"
               THEN UpdateGuiWithAnalysis(g.item, Turn(heap[0]))
               ELSE evaluation_label
          /\ sf_status_label' =
               CASE g.item.type = "connect_success" -> ConnectedText
                 [] g.item.type = "connect_fail" -> ConnectionFailedText
                 [] OTHER -> sf_status_label
          /\ analyze_button' =
               CASE g.item.type = "connect_fail" -> FALSE
                 [] g.item.type = "error" -> analyze_button
                 [] OTHER -> TRUE
          /\ poll_armed' =
               IF g.item.type \in {"connect_fail", "error"} THEN FALSE
               ELSE Rearm(g.item.type)
          /\ messagebox' = CASE g.item.type = "connect_fail" -> ConnectionErrorBox
                              [] g.item.type = "error" -> ErrorBox
                              [] OTHER -> NoBox
  /\ UNCHANGED <<request_queue, heap, ui, nreq>>
  /\ UNCHANGED workerVars
  /\ UNCHANGED <<destroyed, tcl_error>>

\* the rest of a _check_result_queue tick: the user dismisses the error box,
\* showerror returns, the error branch enables the button, and the next tick
\* is scheduled
DismissBox ==
  /\ ui = "open"
  /\ InBox
  /\ analyze_button' = IF messagebox = ErrorBox THEN TRUE ELSE analyze_button
  /\ poll_armed' = Rearm(IF messagebox = ErrorBox THEN "error" ELSE "connect_fail")
  /\ messagebox' = NoBox
  /\ UNCHANGED <<request_queue, result_queue, heap, ui, nreq, consumed,
                 evaluation_label, sf_status_label>>
  /\ UNCHANGED workerVars
  /\ UNCHANGED <<destroyed, tcl_error>>

\* master.destroy(): the window goes, and an error box still open with it; on
\* a window already destroyed the call raises TclError
MasterDestroy ==
  /\ destroyed' = TRUE
  /\ tcl_error' = (tcl_error \/ destroyed)
  /\ messagebox' = NoBox

\* _on_closing up to the join: put the quit request, then join the worker
\* if it is still alive, else destroy the window at once. The handler is
\* registered for WM_DELETE_WINDOW without any condition: where the window
\* manager's close request is delivered while a poll tick waits in its error
\* box, it runs from the box's event loop and the box stays up through the
\* join; where the box holds the request back, the step is not taken. The
\* rest of a tick whose box went with the window addresses destroyed widgets
\* and changes nothing
OnClosing ==
  /\ ui \in {"open", "closed"}
  /\ nreq < MaxReq
  /\ ~Full(request_queue)
  /\ request_queue' = RequestQueuePut(request_queue, QuitRequest(nreq + 1))
  /\ nreq' = nreq + 1
  /\ IF pc # "done"
     THEN /\ ui' = "joining"
          /\ messagebox' = BoxLeft
          /\ UNCHANGED <<destroyed, tcl_error>>
     ELSE /\ ui' = "closed"
          /\ MasterDestroy
  /\ UNCHANGED <<result_queue, heap, analyze_button, consumed, evaluation_label,
                 sf_status_label, poll_armed>>
  /\ UNCHANGED workerVars

\* _on_closing from the return of join: master.destroy()
OnClosingJoin ==
  /\ ui = "joining"
  /\ JoinReturns(pc)
  /\ ui' = "closed"
  /\ MasterDestroy
  /\ UNCHANGED <<request_queue, result_queue, heap, analyze_button, nreq, consumed,
                 evaluation_label, sf_status_label, poll_armed>>
  /\ UNCHANGED workerVars

\* ------------------------------------------------------------------------
\* The worker (_async_engine_handler)
\* ------------------------------------------------------------------------
callerVars ==
  <<analyze_button, ui, nreq, consumed, evaluation_label, sf_status_label, poll_armed,
    destroyed, tcl_error>>

\* the handler puts result r and goes back to request_queue.get
PutAndLoop(r, nextPc) ==
  /\ ~Full(result_queue)
  /\ result_queue' = ResultQueuePut(result_queue, r)
  /\ produced' = produced \o SubSeq(result_queue', Len(result_queue) + 1, Len(result_queue'))
  /\ pc' = nextPc
  /\ cur' = NoRequest

\* request_queue.get returns a connect request
GetConnect ==
  /\ WorkerReady(pc)
  /\ request_queue # <<>>
  /\ LET g == RequestQueueGet(request_queue) IN
       /\ g.item.cmd = "connect"
       /\ request_queue' = g.rest
       /\ cur' = g.item
       /\ started' = Append(started, g.item)
  /\ pc' = IF Truthy(engine) THEN "c_quit" ELSE "c_popen"
  /\ messagebox' = BoxLeft
  /\ UNCHANGED <<result_queue, engine, alive, launched, heap, finished, produced>>
  /\ UNCHANGED callerVars

\* connect: engine.quit() of the old engine returns, the process has exited
ConnectQuitOk ==
  /\ pc = "c_quit"
  /\ alive' = alive \ {engine}
  /\ engine' = None
  /\ pc' = "c_popen"
  /\ messagebox' = BoxLeft
  /\ UNCHANGED <<request_queue, result_queue, launched, cur, heap, started,
                 finished, produced>>
  /\ UNCHANGED callerVars

\* connect: engine.quit() of the old engine raises; the exception is passed
\* over and nothing else is done to the process
ConnectQuitRaise ==
  /\ pc = "c_quit"
  /\ engine' = None
  /\ pc' = "c_popen"
  /\ messagebox' = BoxLeft
  /\ UNCHANGED <<request_queue, result_queue, alive, launched, cur, heap,
                 started, finished, produced>>
  /\ UNCHANGED callerVars

\* connect: popen_uci has spawned the child process and starts the handshake
PopenSpawn ==
  /\ pc = "c_popen"
  /\ launched' = launched + 1
  /\ alive' = alive \cup {launched + 1}
  /\ pc' = "c_init"
  /\ messagebox' = BoxLeft
  /\ UNCHANGED <<request_queue, result_queue, engine, cur, heap, started,
                 finished, produced>>
  /\ UNCHANGED callerVars

\* connect: popen_uci raises because the process cannot be started
PopenRaise ==
  /\ pc = "c_popen"
  /\ engine' = EngineAfterConnectFail(engine)
  /\ PutAndLoop(ConnectFail(LaunchCause, cur.id), PcAfterExcept)
  /\ finished' = finished \cup {cur.id}
  /\ messagebox' = BoxLeft
  /\ UNCHANGED <<request_queue, alive, launched, heap, started>>
  /\ UNCHANGED callerVars

\* connect: the handshake inside popen_uci completes and popen_uci returns
\* the protocol, which is assigned to self.engine
InitOk ==
  /\ pc = "c_init"
  /\ launched \in alive
  /\ engine' = launched
  /\ pc' = "c_ping"
  /\ messagebox' = BoxLeft
  /\ UNCHANGED <<request_queue, result_queue, alive, launched, cur, heap,
                 started, finished, produced>>
  /\ UNCHANGED callerVars

\* connect: the handshake inside popen_uci fails; popen_uci closes the
\* transport, which ends the process, and raises
InitRaise ==
  /\ pc = "c_init"
  /\ alive' = alive \ {launched}
  /\ engine' = EngineAfterConnectFail(engine)
  /\ PutAndLoop(ConnectFail(HandshakeCause, cur.id), PcAfterExcept)
  /\ finished' = finished \cup {cur.id}
  /\ messagebox' = BoxLeft
  /\ UNCHANGED <<request_queue, launched, heap, started>>
  /\ UNCHANGED callerVars

\* connect: engine.ping() returns
PingOk ==
  /\ pc = "c_ping"
  /\ engine \in alive
  /\ PutAndLoop(ConnectSuccess(cur.id), "idle")
  /\ finished' = finished \cup {cur.id}
  /\ messagebox' = BoxLeft
  /\ UNCHANGED <<request_queue, engine, alive, launched, heap, started>>
  /\ UNCHANGED callerVars

\* connect: engine.ping() raises
PingRaise ==
  /\ pc = "c_ping"
  /\ engine' = EngineAfterConnectFail(engine)
  /\ PutAndLoop(ConnectFail(PingCause, cur.id), PcAfterExcept)
  /\ finished' = finished \cup {cur.id}
  /\ messagebox' = BoxLeft
  /\ UNCHANGED <<request_queue, alive, launched, heap, started>>
  /\ UNCHANGED callerVars

\* request_queue.get returns an analyze request
GetAnalyze ==
  /\ WorkerReady(pc)
  /\ request_queue # <<>>
  /\ LET g == RequestQueueGet(request_queue) IN
       /\ g.item.cmd = "analyze"
       /\ request_queue' = g.rest
       /\ started' = Append(started, g.item)
       /\ messagebox' = BoxLeft
       /\ IF ~Truthy(engine)
          THEN /\ PutAndLoop(ErrorResult(NotConnectedMsg, g.item.id), "idle")
               /\ finished' = finished \cup {g.item.id}
               /\ heap' = Release(heap, g.item.board)
          ELSE /\ cur' = [g.item EXCEPT !.sent = heap[g.item.board]]
               /\ pc' = "a_wait"
               /\ UNCHANGED <<result_queue, heap, finished, produced>>
  /\ UNCHANGED <<engine, alive, launched>>
  /\ UNCHANGED callerVars

\* analyze: engine.analyse returns info; the result takes the turn from the
\* request's board
AnalyseOk(info) ==
  /\ pc = "a_wait"
  /\ engine \in alive
  /\ PutAndLoop(AnalysisResult(EngineInfo(info, cur.sent), Turn(heap[cur.board]),
                               cur.sent, cur.id), "idle")
  /\ finished' = finished \cup {cur.id}
  /\ heap' = Release(heap, cur.board)
  /\ messagebox' = BoxLeft
  /\ UNCHANGED <<request_queue, engine, alive, launched, started>>
  /\ UNCHANGED callerVars

\* analyze: engine.analyse raises
AnalyseRaise ==
  /\ pc = "a_wait"
  /\ PutAndLoop(ErrorResult(AnalysisFailedMsg, cur.id), PcAfterExcept)
  /\ finished' = finished \cup {cur.id}
  /\ heap' = Release(heap, cur.board)
  /\ messagebox' = BoxLeft
  /\ UNCHANGED <<request_queue, engine, alive, launched, started>>
  /\ UNCHANGED callerVars

\* request_queue.get returns the quit request
GetQuit ==
  /\ WorkerReady(pc)
  /\ request_queue # <<>>
  /\ LET g == RequestQueueGet(request_queue) IN
       /\ g.item.cmd = "quit"
       /\ request_queue' = g.rest
       /\ started' = Append(started, g.item)
       /\ IF Truthy(engine)
          THEN /\ pc' = "q_quit"
               /\ cur' = g.item
               /\ UNCHANGED finished
          ELSE /\ pc' = PcAfterQuit
               /\ cur' = NoRequest
               /\ finished' = finished \cup {g.item.id}
  /\ messagebox' = BoxLeft
  /\ UNCHANGED <<result_queue, engine, alive, launched, heap, produced>>
  /\ UNCHANGED callerVars

\* quit: engine.quit() returns, the process has exited; the loop ends
QuitOk ==
  /\ pc = "q_quit"
  /\ alive' = alive \ {engine}
  /\ pc' = PcAfterQuit
  /\ cur' = NoRequest
  /\ finished' = finished \cup {cur.id}
  /\ messagebox' = BoxLeft
  /\ UNCHANGED <<request_queue, result_queue, engine, launched, heap, started,
                 produced>>
  /\ UNCHANGED callerVars

\* quit: engine.quit() raises; the exception is passed over and the loop ends
QuitRaise ==
  /\ pc = "q_quit"
  /\ pc' = PcAfterQuit
  /\ cur' = NoRequest
  /\ finished' = finished \cup {cur.id}
  /\ messagebox' = BoxLeft
  /\ UNCHANGED <<request_queue, result_queue, engine, alive, launched, heap,
                 started, produced>>
  /\ UNCHANGED callerVars

\* an engine process ends by itself
EngineDies ==
  /\ \E p \in alive : alive' = alive \ {p}
  /\ messagebox' = BoxLeft
  /\ UNCHANGED <<request_queue, result_queue, engine, launched, pc, cur, heap,
                 started, finished, produced>>
  /\ UNCHANGED callerVars

\* ------------------------------------------------------------------------
\* Specifications
\* ------------------------------------------------------------------------
WorkerGet == GetConnect \/ GetAnalyze \/ GetQuit

Next ==
  \/ \E p \in Paths : ConnectToStockfish(p)
  \/ StartAnalysis
  \/ OnSquareClick
  \/ \E f \in Fens : ResetBoardFromFen(f)
  \/ CheckResultQueue
  \/ DismissBox
  \/ ToggleTheme
  \/ OnClosing
  \/ OnClosingJoin
  \/ GetConnect
  \/ ConnectQuitOk
  \/ ConnectQuitRaise
  \/ PopenSpawn
  \/ PopenRaise
  \/ InitOk
  \/ InitRaise
  \/ PingOk
  \/ PingRaise
  \/ GetAnalyze
  \/ \E info \in Infos : AnalyseOk(info)
  \/ AnalyseRaise
  \/ GetQuit
  \/ QuitOk
  \/ QuitRaise
  \/ EngineDies

Spec == Init /\ [][Next]_vars

\* an awaited engine call raises because the process it talks to has ended
DeadEngineRaises ==
  \/ launched \notin alive /\ InitRaise
  \/ engine \notin alive /\ (PingRaise \/ AnalyseRaise \/ ConnectQuitRaise \/ QuitRaise)

\* The worker thread runs whenever it has a request to take, the join in
\* _on_closing returns at the latest when its timeout elapses, and a call
\* awaiting a process that has ended raises.  Nothing makes a running engine
\* process answer.
FairSpec ==
  Spec /\ WF_vars(WorkerGet) /\ WF_vars(OnClosingJoin) /\ WF_vars(DeadEngineRaises)

\* The scores an engine can report for the analysed position: centipawns,
\* among them the values next to the mate sentinel, and mate distances (UCI
\* "score cp n" and "score mate n"), or no score at all.
CpScores ==
  { Cp(n) : n \in (-MaxCp..MaxCp)
                  \cup {MateScore - 1, MateScore, MateScore + 1}
                  \cup {-MateScore - 1, -MateScore, 1 - MateScore} }

MateScores == { Mate(n) : n \in -MaxMate..MaxMate }

ScoreInfos ==
  { [pv |-> <<"e2e4">>, score |-> sc] : sc \in CpScores \cup MateScores }
    \cup { [pv |-> <<>>, score |-> NoRelative] }

\* The program after a Connect has succeeded and one Analyze of position pos
\* has been answered with info, its result waiting in result_queue, while the
\* live board shows position b.
ScoreInit ==
  \E info \in ScoreInfos, pos \in Positions, b \in Positions :
    LET r == AnalysisResult(EngineInfo(info, pos), Turn(pos), pos, 2) IN
    /\ request_queue = <<>>
    /\ result_queue = <<r>>
    /\ engine = 1
    /\ alive = {1}
    /\ launched = 1
    /\ pc = "idle"
    /\ cur = NoRequest
    /\ heap = [n \in 0..MaxReq |-> IF n = 0 THEN b ELSE Free]
    /\ analyze_button = FALSE
    /\ ui = "open"
    /\ nreq = 2
    /\ started = <<ConnectRequest(ResolvedPath, 1), AnalyzeRequest(2, pos, 2)>>
    /\ finished = {1, 2}
    /\ produced = <<ConnectSuccess(1), r>>
    /\ consumed = <<ConnectSuccess(1)>>
    /\ evaluation_label = Dots(EmptyLabel)
    /\ sf_status_label = ConnectedText
    /\ poll_armed = TRUE
    /\ messagebox = NoBox
    /\ destroyed = FALSE
    /\ tcl_error = FALSE

ScoreNext == CheckResultQueue

ScoreSpec == ScoreInit /\ [][ScoreNext]_vars

\* The program after a first Connect has succeeded and its connect_success has
\* been consumed: engine process 1 is connected and the Analyze button is
\* enabled.  Requests are counted and histories recorded from here on.
ConnectedInit ==
  /\ request_queue = <<>>
  /\ result_queue = <<>>
  /\ engine = 1
  /\ alive = {1}
  /\ launched = 1
  /\ pc = "idle"
  /\ cur = NoRequest
  /\ heap = [n \in 0..MaxReq |-> IF n = 0 THEN 0 ELSE Free]
  /\ analyze_button = TRUE
  /\ ui = "open"
  /\ nreq = 0
  /\ started = <<>>
  /\ finished = {}
  /\ produced = <<>>
  /\ consumed = <<>>
  /\ evaluation_label = EmptyLabel
  /\ sf_status_label = ConnectedText
  /\ poll_armed = TRUE
  /\ messagebox = NoBox
  /\ destroyed = FALSE
  /\ tcl_error = FALSE

ConnectedSpec == ConnectedInit /\ [][Next]_vars

\* Tk's main loop runs a scheduled _check_result_queue tick while the window
\* is open.
PollSpec == Spec /\ WF_vars(CheckResultQueue)

TypeOK ==
  /\ engine \in 0..launched
  /\ alive \subseteq 1..launched
  /\ pc \in {"idle", "c_quit", "c_popen", "c_init", "c_ping", "a_wait", "q_quit", "done"}
  /\ ui \in {"open", "joining", "closed"}
  /\ destroyed \in BOOLEAN
  /\ tcl_error \in BOOLEAN
  /\ nreq \in 0..MaxReq
  /\ Len(request_queue) <= MaxReq

\* ------------------------------------------------------------------------
\* Properties
\* ------------------------------------------------------------------------
\* the positions in `produced` of the results put for request n
ResultsFor(n) == { i \in 1..Len(produced) : produced[i].req = n }

\* C1: at most one engine process is alive at any time.
C1_AtMostOneEngineAlive == Cardinality(alive) <= 1

\* C2: every request put on the request queue, a Shutdown included, comes to
\* have exactly one result, whatever the engine does, and never has more
\* than one.
C2_EveryRequestOneEvent ==
  /\ \A n \in 1..MaxReq :
       [](n <= nreq => <>(Cardinality(ResultsFor(n)) = 1))
  /\ [](\A n \in 1..nreq : Cardinality(ResultsFor(n)) <= 1)

\* C3: the step in which the worker takes an Analyze request while the engine
\* reference is None puts exactly the error "not connected" for it, starts no
\* process, begins no engine exchange and leaves the engine reference as it is.
C3_AnalyzeNotConnected ==
  [][ ( /\ pc = "idle"
        /\ request_queue # <<>>
        /\ request_queue' = Tail(request_queue)
        /\ Head(request_queue).cmd = "analyze"
        /\ engine = None )
      => ( /\ result_queue' =
                Append(result_queue, ErrorResult(NotConnectedMsg, Head(request_queue).id))
           /\ engine' = None
           /\ alive' = alive
           /\ launched' = launched
           /\ pc' = "idle" ) ]_vars

C3_Witness ==
  /\ engine = None
  /\ \E i \in 1..Len(produced) :
       produced[i].type = "error" /\ produced[i].msg = NotConnectedMsg

\* C4: the worker takes the requests in submission order, none skipped, and
\* takes a request only after the handling of every earlier one is over.
C4_SubmissionOrder ==
  /\ \A i \in 1..Len(started) : started[i].id = i
  /\ \A i \in 1..Len(request_queue) : request_queue[i].id = Len(started) + i
  /\ \A i \in 1..Len(started) :
       (i < Len(started) \/ pc \in {"idle", "done"}) => started[i].id \in finished

C4_Witness ==
  /\ Len(started) = 2
  /\ started[1].id \in finished
  /\ pc \notin {"idle", "done"}
  /\ request_queue # <<>>

\* C5: the events the caller has taken, followed by those still waiting, are
\* exactly the events the worker produced, and the worker produced them in the
\* order of their requests, at most one for a request.
C5_ResultsInOrder ==
  /\ consumed \o result_queue = produced
  /\ \A i, j \in 1..Len(produced) : i < j => produced[i].req < produced[j].req

C5_Witness ==
  /\ Len(consumed) = 3
  /\ consumed[1].type = "connect_success"
  /\ consumed[2].type = "analysis_result"
  /\ consumed[3].type = "analysis_result"

\* C6: after a connect with a path that does not exist or is not
\* executable, once the worker has nothing left to do there is no engine
\* reference and a connect_fail event has been delivered.
C6_UnusablePathYieldsConnectFail ==
  ( /\ messagebox = InvalidExecutableBox
    /\ pc = "idle"
    /\ request_queue = <<>> )
  => ( /\ engine = None
       /\ \E i \in 1..Len(produced) : produced[i].type = "connect_fail" )

\* C7: the handling of a Connect ends with exactly one event for it; a
\* connect_fail carries a cause and leaves the engine reference None, a
\* connect_success leaves it set; and while the last event produced is a
\* connect_fail the idle worker has no engine reference, so that the next
\* Analyze is answered "not connected".
C7_ConnectEnds ==
  (cur.cmd = "connect" /\ cur' # cur)
  => LET r == produced'[Len(produced')] IN
       /\ Len(produced') = Len(produced) + 1
       /\ result_queue' = Append(result_queue, r)
       /\ r.req = cur.id
       /\ r.type \in {"connect_success", "connect_fail"}
       /\ pc \in {"c_popen", "c_init"} => r.type = "connect_fail"
       /\ r.type = "connect_fail" => (engine' = None /\ r.msg # "")
       /\ r.type = "connect_success" => (pc = "c_ping" /\ engine' # None /\ engine' \in alive')
       /\ pc' = "idle"

C7_AfterConnect ==
  (pc = "idle" /\ produced # <<>>)
  => LET r == produced[Len(produced)] IN
       /\ r.type = "connect_fail" => engine = None
       /\ r.type = "connect_success" => engine # None

C7_ConnectOutcome == []C7_AfterConnect /\ [][C7_ConnectEnds]_vars

C7_Witness ==
  \E i \in 1..Len(produced) :
    /\ i < Len(produced)
    /\ produced[i].type = "connect_fail"
    /\ produced[i].msg = PingCause
    /\ produced[i + 1].msg = NotConnectedMsg

\* C8: the worker leaves its loop only while handling a quit request; after
\* a failed Connect or a failed Analyze it is back at request_queue.get, and
\* there it takes the next request whenever one waits.
C8_LoopExit ==
  /\ (pc # "done" /\ pc' = "done")
       => \/ pc = "q_quit" /\ cur.cmd = "quit"
          \/ pc = "idle" /\ request_queue # <<>> /\ Head(request_queue).cmd = "quit"
  /\ (produced' # produced /\ produced'[Len(produced')].type \in {"connect_fail", "error"})
       => pc' = "idle"

C8_KeepsDraining == (pc = "idle" /\ request_queue # <<>>) => ENABLED WorkerGet

C8_WorkerSurvivesFailures == []C8_KeepsDraining /\ [][C8_LoopExit]_vars

C8_Witness ==
  \E i, j \in 1..Len(produced) :
    /\ i < j
    /\ produced[i].msg = AnalysisFailedMsg
    /\ produced[j].type = "analysis_result"

\* C9: the board a waiting or in-flight Analyze request carries holds the
\* position the caller's board had when the request was submitted, the
\* position sent to the engine is that position, and the result reports that
\* position's side to move.
C9_SnapshotFrozen ==
  /\ \A i \in 1..Len(request_queue) :
       request_queue[i].cmd = "analyze"
         => heap[request_queue[i].board] = request_queue[i].snap
  /\ cur.cmd = "analyze" => (heap[cur.board] = cur.snap /\ cur.sent = cur.snap)
  /\ \A i \in 1..Len(produced) : \A j \in 1..Len(started) :
       (produced[i].type = "analysis_result" /\ started[j].id = produced[i].req)
         => /\ produced[i].pos = started[j].snap
            /\ produced[i].turn = Turn(started[j].snap)

\* Analyze(A) is in flight, Analyze(B) waits in the queue, and the caller has
\* changed its board since it submitted them
C9_Witness ==
  /\ pc = "a_wait"
  /\ cur.cmd = "analyze"
  /\ cur.snap # heap[0]
  /\ \E i \in 1..Len(request_queue) :
       /\ request_queue[i].cmd = "analyze"
       /\ request_queue[i].snap # heap[0]

\* the caller's shutdown never waits on the worker: whenever it is inside the
\* join it comes out of it, whether the worker has ended, is idle or is
\* inside an engine exchange
C10_ShutdownCompletes == (ui = "joining") ~> (ui = "closed")

\* C10: shutdown is idempotent: no call of it, the first or a later one, with
\* or without an engine, raises an error, and none hangs.
C10_ShutdownIdempotent == [](~tcl_error) /\ C10_ShutdownCompletes

\* C11: once shutdown has completed (the window is destroyed after the join
\* returned), no engine process is alive: a responsive engine has been asked
\* to quit and an unresponsive one has been ended by force.
C11_NoEngineAfterShutdown == (ui = "closed") => alive = {}

\* the started requests whose handling is not over
Unfinished == { i \in 1..Len(started) : started[i].id \notin finished }

\* C12 (state part): at most one request is being handled, the one the worker
\* took last, and the worker is inside that request's engine exchange and no
\* other.
C12_OneExchange ==
  /\ Cardinality(Unfinished) <= 1
  /\ Unfinished # {} =>
       /\ Unfinished = {Len(started)}
       /\ cur = [started[Len(started)] EXCEPT !.sent = cur.sent]
       /\ pc \in CASE cur.cmd = "connect" -> {"c_quit", "c_popen", "c_init", "c_ping"}
                  [] cur.cmd = "analyze" -> {"a_wait"}
                  [] OTHER -> {"q_quit"}
  /\ Unfinished = {} => pc \in {"idle", "done"}

\* C12 (step part): the worker takes a request only when no exchange is in
\* progress and every Analyze taken before has produced its result.
C12_StartsAfterResult ==
  started' # started =>
    /\ Unfinished = {}
    /\ \A i \in 1..Len(started) :
         started[i].cmd = "analyze" => ResultsFor(started[i].id) # {}

\* C12: no two engine exchanges overlap; a Connect queued behind an Analyze
\* starts only after the analysis has produced its result.
C12_NoOverlap == []C12_OneExchange /\ [][C12_StartsAfterResult]_vars

\* a Connect is replacing the engine right after an Analyze whose result is out
C12_Witness ==
  /\ pc = "c_quit"
  /\ Len(started) >= 2
  /\ started[Len(started) - 1].cmd = "analyze"
  /\ \E i \in ResultsFor(started[Len(started) - 1].id) :
       produced[i].type = "analysis_result"

\* the number a label shows, with its sign
Shown(l) == IF l.neg THEN -(l.whole * 100 + l.frac) ELSE l.whole * 100 + l.frac

\* C13: the evaluation shown for an analysis result is the engine's score
\* from the analysed side's point of view: a mate score appears as a mate
\* distance ("Mate in n" for n > 0, "Mated in |n|" otherwise) and never as a
\* number of pawns, a centipawn score appears as that number of hundredths
\* and never as a mate, so the 10000 mate sentinel is never displayed for a
\* mate.
C13_ScoreNormalized ==
  \A i \in 1..Len(consumed) :
    (i = Len(consumed) /\ consumed[i].type = "analysis_result") =>
      LET s == consumed[i].score.relative
          l == evaluation_label
      IN /\ s.kind = "mate" =>
              /\ l.text \in {"Mate in", "Mated in"}
              /\ l.text = "Mate in" => (l.whole = s.n /\ s.n > 0)
              /\ l.text = "Mated in" => (l.whole = -s.n /\ s.n <= 0)
         /\ s.kind = "cp" =>
              /\ l.text = "%.2f"
              /\ l.frac \in 0..99
              /\ l.whole >= 0
              /\ Shown(l) = s.n
         /\ s.kind = "none" => l.text = "(Not available)"

\* a lost mate, analysed for the side that is not to move on the live board,
\* is on display
C13_Witness ==
  /\ consumed # <<>>
  /\ consumed[Len(consumed)].type = "analysis_result"
  /\ consumed[Len(consumed)].score.relative = Mate(-1)
  /\ consumed[Len(consumed)].turn # Turn(heap[0])
  /\ evaluation_label.text = "Mated in"
  /\ evaluation_label.whole = 1

\* C14: when an analysis exchange fails, one error event is put and, if the
\* engine process is no longer running, the engine reference is cleared, so
\* that the next Analyze is answered "not connected".
C14_DeadEngineCleared ==
  [][(pc = "a_wait" /\ pc' # "a_wait")
       => \/ /\ produced' = Append(produced, produced'[Len(produced')])
             /\ produced'[Len(produced')].type = "analysis_result"
          \/ /\ produced' = Append(produced, produced'[Len(produced')])
             /\ produced'[Len(produced')].type = "error"
             /\ engine \notin alive' => engine' = None]_vars

\* C15: a Connect whose engine process never completes the handshake does not
\* keep the worker waiting for ever: the wait ends (with a connect_fail).
C15_HandshakeTimesOut ==
  (pc \in {"c_init", "c_ping"}) ~> (pc \notin {"c_init", "c_ping"})

\* the analysis results the caller has taken
AnalysesConsumed == { i \in 1..Len(consumed) : consumed[i].type = "analysis_result" }

\* C16: the perspective an analysis result carries is the side to move of the
\* analysed snapshot, and the displayed score is read from that side, whatever
\* the caller's board shows when the result is produced or consumed: the
\* engine's score for the snapshot appears un-negated.
C16_PerspectiveIsSnapshot ==
  /\ \A i \in 1..Len(produced) : \A j \in 1..Len(started) :
       (produced[i].type = "analysis_result" /\ started[j].id = produced[i].req)
         => /\ produced[i].turn = Turn(started[j].snap)
            /\ produced[i].score # NoScore
                 => produced[i].score.turn = Turn(started[j].snap)
  /\ \A i \in AnalysesConsumed :
       (evaluation_label.text # "..." /\ \A k \in AnalysesConsumed : k <= i) =>
         LET s == consumed[i].score.relative IN
         /\ (s.kind = "mate" /\ s.n > 0) =>
              (evaluation_label.text = "Mate in" /\ evaluation_label.whole = s.n)
         /\ (s.kind = "mate" /\ s.n <= 0) =>
              (evaluation_label.text = "Mated in" /\ evaluation_label.whole = -s.n)
         /\ s.kind = "cp" =>
              (evaluation_label.text = "%.2f" /\ Shown(evaluation_label) = s.n)

\* a won mate for the snapshot's side is on display while the caller's board
\* has the other side to move
C16_Witness ==
  /\ consumed # <<>>
  /\ consumed[Len(consumed)].type = "analysis_result"
  /\ consumed[Len(consumed)].score # NoScore
  /\ consumed[Len(consumed)].turn # Turn(heap[0])
  /\ evaluation_label.text = "Mate in"
  /\ analyze_button

\* C17: the engine reference belongs to the worker alone: no caller-side step
\* reads it, so what the caller shows about the connection changes only when
\* the caller takes an event from the result queue, and never reflects an
\* engine handle whose handshake is still running or has failed.
C17_CallerSeesOnlyEvents ==
  [][sf_status_label' # sf_status_label => consumed' # consumed]_vars

\* a queue holding n items is within the capacity it was created with
WithinCapacity(n) == n = 0 \/ (0 < Maxsize /\ n <= Maxsize)

\* C18: both queues are bounded: each has a fixed capacity, and whatever the
\* caller does the number of pending requests and of unconsumed results never
\* exceeds it.
C18_QueuesBounded ==
  WithinCapacity(Len(request_queue)) /\ WithinCapacity(Len(result_queue))

\* the worker has taken a quit request and is through with it
QuitHandled ==
  \E i \in 1..Len(started) : started[i].cmd = "quit" /\ started[i].id \in finished

\* C19: once the worker has processed a quit request it takes no further
\* request, launches no engine, touches no engine and puts no result, whatever
\* is still queued or is submitted afterwards.
C19_NothingAfterShutdown ==
  [][QuitHandled =>
       /\ started' = started
       /\ produced' = produced
       /\ launched' = launched
       /\ engine' = engine
       /\ pc' = pc
       /\ \A i \in 1..Len(request_queue) :
            i <= Len(request_queue') /\ request_queue'[i] = request_queue[i]]_vars

\* the worker has left its loop and a request submitted later is still queued
C19_Witness ==
  /\ QuitHandled
  /\ pc = "done"
  /\ request_queue # <<>>
  /\ \A i \in 1..Len(started) : started[i].id < request_queue[1].id

\* the Analyze requests submitted whose result the caller has not taken
OutstandingAnalyses ==
  ({ request_queue[i].id : i \in { j \in 1..Len(request_queue) :
                                     request_queue[j].cmd = "analyze" } }
     \cup { started[i].id : i \in { j \in 1..Len(started) :
                                     started[j].cmd = "analyze" } })
    \ { consumed[i].req : i \in 1..Len(consumed) }

\* C20: at most one Analyze request is outstanding (submitted and its result
\* not yet consumed) at any time.
C20_OneAnalyzeOutstanding == Cardinality(OutstandingAnalyses) <= 1

\* C21: whenever both queues are empty and the worker is idle, an enabled
\* Analyze button means that the worker holds an engine reference.
C21_ButtonMeansConnected ==
  (request_queue = <<>> /\ result_queue = <<>> /\ pc = "idle" /\ analyze_button)
    => Truthy(engine)

\* the connect events the caller has taken
ConnectEventsConsumed ==
  { i \in 1..Len(consumed) : consumed[i].type \in {"connect_success", "connect_fail"} }

\* C22: the status label reads "Connected!" only if the caller has consumed a
\* connect event and the most recent one is connect_success.
C22_StatusAgreesWithEvents ==
  sf_status_label = ConnectedText =>
    \E i \in ConnectEventsConsumed :
      /\ consumed[i].type = "connect_success"
      /\ \A k \in ConnectEventsConsumed : k <= i

\* C23 (step part): a poll tick takes at most one result.
C23_OneResultPerTick ==
  \/ consumed' = consumed
  \/ /\ result_queue # <<>>
     /\ consumed' = Append(consumed, Head(result_queue))
     /\ result_queue' = Tail(result_queue)

\* C23 (state part): while the window is open the next poll tick is scheduled.
C23_PollArmed == ui = "open" => (poll_armed /\ ENABLED CheckResultQueue)

\* C23 as stated: every result the worker has put is consumed by the caller
\* unless the window is closed first: whenever results wait, the caller comes
\* to have taken all of them (the queue is first-in first-out and the number
\* of results is finite); each tick takes at most one result and the tick is
\* always scheduled again.
C23_ResultsConsumed ==
  /\ (result_queue # <<>>) ~> (result_queue = <<>> \/ ui # "open")
  /\ []C23_PollArmed
  /\ [][C23_OneResultPerTick]_vars

\* while the window is open either the next poll tick is scheduled, or a tick
\* is waiting in its error box and schedules the next one when the box is
\* dismissed
C23_PollArmedOrInBox ==
  ui = "open" =>
    IF InBox THEN ENABLED DismissBox
    ELSE poll_armed /\ ENABLED CheckResultQueue

\* C23, amended: if no error box stays open for ever, every result the worker
\* has put is consumed by the caller unless the window is closed first; each
\* tick takes at most one result, and the next tick is scheduled when the
\* tick returns, which in the connect_fail and error branches is when the
\* user has dismissed the error box.
C23_ResultsConsumedOnceDismissed ==
  /\ []<>(~InBox) =>
       ((result_queue # <<>>) ~> (result_queue = <<>> \/ ui # "open"))
  /\ []C23_PollArmedOrInBox
  /\ [][C23_OneResultPerTick]_vars

\* every result put has been consumed with the window open, a connect_fail
\* and a later error among them, their boxes dismissed and the tick scheduled
C23_Witness ==
  /\ ui = "open"
  /\ poll_armed
  /\ Len(consumed) >= 3
  /\ consumed = produced
  /\ \E i, j \in 1..Len(consumed) :
       i < j /\ consumed[i].type = "connect_fail" /\ consumed[j].type = "error"

====
